---- MODULE Spec2Model ----
(***************************************************************************)
(* Model of the chat-with-data pipeline of src/app.py: the Chat page, the  *)
(* database connection form, get_response with its helpers, and the        *)
(* cleaning function clean_sql_query.  app.py holds the live script        *)
(* (lines 1-266) followed by two earlier variants of the same script that  *)
(* are kept as comments: one built on the OpenAI client (lines 270-628)    *)
(* and one built on a Gemini chain (lines 632-919).  The variable          *)
(* `variant' says which of the three scripts is running.                   *)
(*                                                                         *)
(* A text is a sequence of atoms.  An atom is a single character where the *)
(* code looks at characters (the letters of the marker "SQL", the colon,   *)
(* whitespace) and an indivisible chunk of other text elsewhere; a chunk   *)
(* never starts with s, S or whitespace and never ends with whitespace.    *)
(***************************************************************************)
EXTENDS Integers, Sequences, FiniteSets, TLC

\* ------------------------------------------------------------------ bounds
MaxTurns == 2   \* chat turns submitted in one session
NumDbs == 3     \* database handles a connection attempt can yield
MaxWs == 1      \* longest whitespace run in an input of clean_sql_query

\* ------------------------------------------------------------------- texts
None == <<"<None>">>

Whitespace == {" ", "\n"}

Lower(c) ==
    CASE c = "S" -> "s"
      [] c = "Q" -> "q"
      [] c = "L" -> "l"
      [] OTHER -> c

RECURSIVE LStrip(_)
LStrip(s) ==
    IF s # <<>> /\ Head(s) \in Whitespace THEN LStrip(Tail(s)) ELSE s

RECURSIVE RStrip(_)
RStrip(s) ==
    IF s # <<>> /\ s[Len(s)] \in Whitespace
    THEN RStrip(SubSeq(s, 1, Len(s) - 1))
    ELSE s

\* str.strip()
Strip(s) == RStrip(LStrip(s))

\* End of the match of the regular expression ^(SQL:?\s*)? with
\* re.IGNORECASE at the start of query: 0 when the optional group is empty.
MarkerEnd(query) ==
    IF /\ Len(query) >= 3
       /\ Lower(query[1]) = "s"
       /\ Lower(query[2]) = "q"
       /\ Lower(query[3]) = "l"
    THEN IF Len(query) >= 4 /\ query[4] = ":" THEN 4 ELSE 3
    ELSE 0

\* re.sub(r'^(SQL:?\s*)?', '', query, flags=re.IGNORECASE): the pattern is
\* anchored, so exactly one match (possibly empty) is replaced.
ReSubMarker(query) ==
    LET k == MarkerEnd(query)
        rest == SubSeq(query, k + 1, Len(query))
    IN  IF k = 0 THEN query ELSE LStrip(rest)

clean_sql_query(query) == Strip(ReSubMarker(query))

\* ----------------------------------------------------------- program texts
CouldntGenerate ==
    <<"I'm sorry, I couldn't generate a SQL query for your question.">>

ErrorApology ==
    <<"I'm sorry, I encountered an error while processing your request.">>

Greeting ==
    <<"Hello! I'm your data assistant. Ask me anything about your database.">>

AIMessage(content) == [role |-> "Assistant", content |-> content]

HumanMessage(content) == [role |-> "Human", content |-> content]

\* ------------------------------------------------- the external collaborators
Variants == {"live", "openai", "gemini"}

Menu == {"Chat", "Database Connection", "Gmail Connection", "About"}

Unset == 0

Dbs == 1 .. NumDbs

\* The questions a user types into st.chat_input (non-empty texts).
Questions == {<<"latest", " ", "order">>, <<"asdkjasd">>}

\* One CREATE TABLE definition of a schema text: the table name split at
\* '_', and whether the name is written inside backquotes.
TableDef(words, quoted) == [name |-> words, quoted |-> quoted]

\* db.get_table_info(): the CREATE TABLE definitions of the schema text of
\* each database (an empty database, one with two plainly named tables, one
\* whose only table name is quoted, and otherwise one plain table).
TableInfo(d) ==
    CASE d = 1 -> <<>>
      [] d = 2 -> << TableDef(<<"artist">>, FALSE),
                     TableDef(<<"purchase", "order">>, FALSE) >>
      [] d = 3 -> << TableDef(<<"Artist">>, TRUE) >>
      [] OTHER -> << TableDef(<<"items">>, FALSE) >>

RECURSIVE TableNames(_)
\* re.findall(r'CREATE TABLE (\w+)', schema): \w+ has to start right after
\* "CREATE TABLE ", so a definition whose name is quoted yields no name.
TableNames(info) ==
    IF info = <<>> THEN <<>>
    ELSE IF Head(info).quoted
         THEN TableNames(Tail(info))
         ELSE <<Head(info).name>> \o TableNames(Tail(info))

\* The three backquotes of a Markdown code fence, as one atom.
Fence == "<fence>"

\* Completions the LLM port can return to the synthesis prompt.
RawCompletions ==
    { <<"SELECT 1;">>,
      <<"S", "Q", "L", ":", " ", "SELECT 1;">>,
      <<" ", "S", "Q", "L", " ", "DELETE FROM t;">>,
      <<"s", "q", "l", "\n">>,
      <<"DELETE FROM t;">>,
      <<Fence, "SELECT 1;", Fence>>,
      <<>> }

\* Completions the LLM port can return to the answer prompt.
AnswerCompletions == { <<"It is 1.">>, <<" ", "It is 1.", "\n">> }

\* Completions the LLM port can return to the fallback prompt.
FallbackCompletions == { <<"In general, it depends.">> }

\* What db.run(sql) returns on success, and the messages it raises with.
ResultTexts == { <<"[(1,)]">>, <<>> }

ErrorMessages == { <<"syntax error">>, <<"connection lost">> }

Range(s) == { s[i] : i \in 1 .. Len(s) }

\* sum(word.lower() in user_query.lower() for word in table.split('_'))
Score(table, query) ==
    Cardinality({ i \in 1 .. Len(table) : table[i] \in Range(query) })

\* max(table_names, key=..., default=None): the first name of maximal score.
RelevantTable(table_names, query) ==
    IF table_names = <<>> THEN None
    ELSE table_names[CHOOSE i \in 1 .. Len(table_names) :
             /\ \A j \in 1 .. Len(table_names) :
                   Score(table_names[j], query) <= Score(table_names[i], query)
             /\ \A j \in 1 .. (i - 1) :
                   Score(table_names[j], query) < Score(table_names[i], query)]

\* f"Query executed successfully. Result: {result}" of safe_db_run
Executed(result) == <<"Query executed successfully. Result: ">> \o result

\* --------------------------------------------------------------------- state
VARIABLES
    variant,       \* which of the three scripts of app.py runs
    selected,      \* option_menu selection
    db,            \* st.session_state.db, Unset until a connection succeeded
    chat_history,  \* st.session_state.chat_history
    turns,         \* chat turns submitted so far
    banner,        \* st.success / st.error shown by the connection form
    connected,     \* handle the last successful init_database returned
    fetched_from,  \* handles whose get_table_info was called in a turn
    pc,            \* position of the running turn
    user_query,    \* get_response argument
    schema,        \* table names of the schema fetched in this turn
    raw,           \* completion returned to the synthesis prompt
    sql_query,     \* the cleaned statement
    result,        \* value bound to the result of the execution step
    response,      \* string returned by get_response
    outcome,       \* of get_response: "none", "returned", "raised" (escaped)
    exc,           \* message of the exception being propagated
    run_error,     \* message db.run raised with in this turn
    calls,         \* port calls made in this turn
    failed,        \* steps that raised in this turn
    executed,      \* statements handed to db.run in this turn
    answer_input,  \* result values embedded in answer prompts sent to the LLM
    log,           \* messages passed to logging.error in this turn
    cl_pc,         \* position of the cleaning run
    cl_in,         \* parts of the input of clean_sql_query
    cl_out,        \* clean_sql_query(input)
    cl_out2,       \* clean_sql_query(clean_sql_query(input))
    sv_pc,         \* position of the save_to_mysql call
    sv_df,         \* rows of the DataFrame passed to save_to_mysql
    sv_next,       \* index of the row the insert loop handles next
    sv_conn,       \* conn: "none", "open", "down", "lost", "closed"
    sv_db,         \* the MySQL table: existence, committed and pending rows
    sv_db0,        \* the MySQL table when save_to_mysql was called
    sv_error       \* statement whose mysql.connector Error was caught

sessionVars == <<variant, selected, db, chat_history, turns>>

pageVars == <<banner, connected>>

turnVars ==
    <<pc, user_query, schema, raw, sql_query, result, response, outcome,
      exc, run_error, calls, failed, executed, answer_input, log>>

cleanVars == <<cl_pc, cl_in, cl_out, cl_out2>>
saveVars == <<sv_pc, sv_df, sv_next, sv_conn, sv_db, sv_db0, sv_error>>

vars == <<sessionVars, pageVars, fetched_from, turnVars, cleanVars,
          saveVars>>

NoCalls == [info |-> 0, synth |-> 0, run |-> 0, answer |-> 0, fallback |-> 0]

NoParts == [lead |-> <<>>, marker |-> <<>>, gap |-> <<>>, body |-> <<>>,
            trail |-> <<>>]

TurnReset ==
    /\ user_query = None
    /\ schema = <<>>
    /\ raw = None
    /\ sql_query = None
    /\ result = None
    /\ response = None
    /\ outcome = "none"
    /\ exc = None
    /\ run_error = None
    /\ calls = NoCalls
    /\ failed = {}
    /\ executed = <<>>
    /\ answer_input = <<>>
    /\ log = <<>>

CleanIdle ==
    /\ cl_pc = "off"
    /\ cl_in = NoParts
    /\ cl_out = None
    /\ cl_out2 = None

NoTable == [table |-> FALSE, committed |-> <<>>, pending |-> <<>>]

SaveIdle ==
    /\ sv_pc = "off"
    /\ sv_df = <<>>
    /\ sv_next = 1
    /\ sv_conn = "none"
    /\ sv_db = NoTable
    /\ sv_db0 = NoTable
    /\ sv_error = "none"

Init ==
    /\ variant \in Variants
    /\ selected = "Chat"
    /\ db = Unset
    /\ chat_history = <<AIMessage(Greeting)>>
    /\ turns = 0
    /\ banner = "none"
    /\ connected = Unset
    /\ fetched_from = {}
    /\ pc = "Idle"
    /\ TurnReset
    /\ CleanIdle
    /\ SaveIdle

\* ------------------------------------------------------- the session pages
\* option_menu: the user picks another page while no turn runs.
SelectMenu(m) ==
    /\ pc = "Idle"
    /\ cl_pc = "off"
    /\ m # selected
    /\ selected' = m
    /\ banner' = "none"
    /\ UNCHANGED <<variant, db, chat_history, turns, connected, fetched_from,
                   turnVars, cleanVars, saveVars>>

\* A form that keeps the first handle once the session has one.
DbAfterConnectKeepsFirst(old, handle) == IF old # Unset THEN old ELSE handle

\* A form that stores whatever init_database returned, None included.
DbAfterConnectStoresNone(old, handle) == handle

\* if db: st.session_state.db = db: what the session holds after
\* init_database returned handle (Unset stands for its None).
DbAfterConnect(old, handle) == IF handle # Unset THEN handle ELSE old

\* A connection form that starts the conversation over on every attempt.
ConnectDatabaseResetsChat ==
    /\ pc = "Idle"
    /\ cl_pc = "off"
    /\ selected = "Database Connection"
    /\ \E handle \in Dbs \cup {Unset} :
          /\ db' = DbAfterConnect(db, handle)
          /\ connected' = IF handle # Unset THEN handle ELSE connected
          /\ banner' = IF handle # Unset THEN "success" ELSE "error"
    /\ chat_history' = <<AIMessage(Greeting)>>
    /\ UNCHANGED <<variant, selected, turns, fetched_from, turnVars, cleanVars, saveVars>>

\* The Connect button: init_database returns a handle, or None when
\* SQLDatabase.from_uri raised; only a handle replaces st.session_state.db.
ConnectDatabase ==
    /\ pc = "Idle"
    /\ cl_pc = "off"
    /\ selected = "Database Connection"
    /\ \E handle \in Dbs \cup {Unset} :
          /\ db' = DbAfterConnect(db, handle)
          /\ connected' = IF handle # Unset THEN handle ELSE connected
          /\ banner' = IF handle # Unset THEN "success" ELSE "error"
    /\ UNCHANGED <<variant, selected, chat_history, turns, fetched_from,
                   turnVars, cleanVars, saveVars>>

\* A question typed on the Chat page: the Human entry is appended, then the
\* arguments of get_response are evaluated; reading st.session_state.db
\* before any connection succeeded raises and ends the script run.
SubmitQuery(q) ==
    /\ pc = "Idle"
    /\ cl_pc = "off"
    /\ selected = "Chat"
    /\ turns < MaxTurns
    /\ turns' = turns + 1
    /\ chat_history' = Append(chat_history, HumanMessage(q))
    /\ IF db = Unset
       THEN /\ pc' = "Crashed"
            /\ exc' = <<"st.session_state has no attribute db">>
            /\ UNCHANGED user_query
       ELSE /\ pc' = "GetSchema"
            /\ user_query' = q
            /\ UNCHANGED exc
    /\ UNCHANGED <<variant, selected, db, pageVars, fetched_from, schema, raw,
                   sql_query, result, response, outcome, run_error, calls,
                   failed, executed, answer_input, log, cleanVars, saveVars>>

\* The next script run after one that died on the Chat page.
Rerun ==
    /\ pc = "Crashed"
    /\ pc' = "Idle"
    /\ exc' = None
    /\ UNCHANGED <<sessionVars, pageVars, fetched_from, user_query, schema,
                   raw, sql_query, result, response, outcome, run_error, calls,
                   failed, executed, answer_input, log, cleanVars, saveVars>>

\* ------------------------------------------------------------ get_response
LLMError == <<"llm unavailable">>

InfoError == <<"schema unavailable">>

Call(port) == [calls EXCEPT ![port] = @ + 1]

\* A check that tests only for None and lets the empty string through.
NoStatementNoneOnly(q) == q = None

\* A check that also turns away a mutating statement.
NoStatementOrMutating(q) == q = None \/ q = <<>> \/ q = <<"DELETE FROM t;">>

\* Python truth value of the statement get_sql_query returned: None and the
\* empty string both mean that no statement was produced.
NoStatement(q) == q = None \/ q = <<>>

\* The statement a completion is turned into: openai_completion strips the
\* completion before generate_sql cleans it, the other scripts clean it as is.
Synthesized(v, completion) ==
    IF v = "openai"
    THEN clean_sql_query(Strip(completion))
    ELSE clean_sql_query(completion)

\* Whether the script checks the statement before executing it (the live
\* script returns early on `not sql_query'; the commented scripts do not).
ChecksStatement(v) == v = "live"

\* A script that goes on to the answer prompt after db.run raised.
AfterRunErrorAnswers(v) == "Answering"

\* A script that runs the statement again after db.run raised.
AfterRunErrorRetries(v) == "Executing"

\* Where a turn continues once db.run raised: the live script lets the
\* exception reach its except clause; the OpenAI script's safe_db_run returns
\* None and the caller raises; the Gemini script's safe_db_run returns None
\* inside the chain, which goes on to the answer prompt.
AfterRunError(v) == IF v = "gemini" THEN "Answering" ELSE "Except"

\* A live script whose except clause still calls fallback_response.
ExceptTargetFallsBack(v) == "Fallback"

\* What the except clause of get_response does: the live script returns its
\* canned string, the commented scripts call fallback_response.
ExceptTarget(v) == IF v = "live" THEN "Done" ELSE "Fallback"

\* Whether the answer text is stripped before it is returned.
StripsAnswer(v) == v # "gemini"

\* A get_sql_query without its try/except.
CatchesSynthesisErrorNever(v) == FALSE

\* get_sql_query's own try/except around the synthesis call (live script).
CatchesSynthesisError(v) == v = "live"

\* db.get_table_info() at the start of synthesis, and in the live script the
\* choice of the relevant table; with no table get_sql_query returns None.
GetSchema ==
    /\ pc = "GetSchema"
    /\ calls' = Call("info")
    /\ fetched_from' = fetched_from \cup {db}
    /\ \/ /\ failed' = failed \cup {"schema"}
          /\ exc' = InfoError
          /\ pc' = "Except"
          /\ UNCHANGED <<schema, response, outcome>>
       \/ /\ schema' = TableInfo(db)
          /\ IF /\ variant = "live"
                /\ RelevantTable(TableNames(schema'), user_query) = None
             THEN /\ response' = CouldntGenerate
                  /\ outcome' = "returned"
                  /\ pc' = "Done"
             ELSE /\ pc' = "Synthesizing"
                  /\ UNCHANGED <<response, outcome>>
          /\ UNCHANGED <<failed, exc>>
    /\ UNCHANGED <<sessionVars, pageVars, user_query, raw, sql_query, result,
                   run_error, executed, answer_input, log, cleanVars, saveVars>>

\* The synthesis LLM call and the cleaning of its completion.
SynthesizeSql ==
    /\ pc = "Synthesizing"
    /\ calls' = Call("synth")
    /\ \/ /\ failed' = failed \cup {"synth"}
          /\ IF CatchesSynthesisError(variant)
             THEN /\ log' = Append(log, LLMError)
                  /\ response' = CouldntGenerate
                  /\ outcome' = "returned"
                  /\ pc' = "Done"
                  /\ UNCHANGED exc
             ELSE /\ exc' = LLMError
                  /\ pc' = "Except"
                  /\ UNCHANGED <<log, response, outcome>>
          /\ UNCHANGED <<raw, sql_query>>
       \/ \E completion \in RawCompletions :
             /\ raw' = completion
             /\ sql_query' = Synthesized(variant, completion)
             /\ IF ChecksStatement(variant) /\ NoStatement(sql_query')
                THEN /\ response' = CouldntGenerate
                     /\ outcome' = "returned"
                     /\ pc' = "Done"
                ELSE /\ pc' = "Executing"
                     /\ UNCHANGED <<response, outcome>>
             /\ UNCHANGED <<failed, exc, log>>
    /\ UNCHANGED <<sessionVars, pageVars, fetched_from, user_query, schema,
                   result, run_error, executed, answer_input, cleanVars, saveVars>>

\* An execution step that turns the exception into a value carrying its
\* message.
RunErrorValueMessage(v, msg) == msg

\* The value that stands for the result once db.run raised with msg: the
\* commented scripts' safe_db_run returns None, and the live script binds no
\* result at all; the message goes to logging.error only.
RunErrorValue(v, msg) == None

\* db.run(sql_query); in the commented scripts wrapped in safe_db_run, and in
\* the Gemini script run next to a second db.get_table_info().
RunQuery ==
    /\ pc = "Executing"
    /\ executed' = Append(executed, sql_query)
    /\ \/ \E msg \in ErrorMessages :
             /\ calls' = Call("run")
             /\ failed' = failed \cup {"run"}
             /\ run_error' = msg
             /\ result' = RunErrorValue(variant, msg)
             /\ pc' = AfterRunError(variant)
             /\ IF variant = "live"
                THEN /\ exc' = msg
                     /\ UNCHANGED log
                ELSE /\ log' = Append(log, msg)
                     /\ exc' = IF variant = "openai"
                               THEN <<"SQL query execution failed">>
                               ELSE exc
       \/ \E text \in ResultTexts :
             /\ calls' = Call("run")
             /\ result' = IF variant = "live" THEN text ELSE Executed(text)
             /\ pc' = "Answering"
             /\ UNCHANGED <<failed, exc, run_error, log>>
       \/ /\ variant = "gemini"
          /\ calls' = [calls EXCEPT !.run = @ + 1, !.info = @ + 1]
          /\ failed' = failed \cup {"schema"}
          /\ exc' = InfoError
          /\ pc' = "Except"
          /\ UNCHANGED <<result, run_error, log>>
    /\ UNCHANGED <<sessionVars, pageVars, fetched_from, user_query, schema,
                   raw, sql_query, response, outcome, answer_input, cleanVars, saveVars>>

\* The answer prompt and its LLM call; the OpenAI script's generate_response
\* fetches the schema again before it fills the prompt.
SynthesizeAnswer ==
    /\ pc = "Answering"
    /\ \/ /\ variant = "openai"
          /\ calls' = Call("info")
          /\ failed' = failed \cup {"schema"}
          /\ exc' = InfoError
          /\ pc' = "Except"
          /\ UNCHANGED <<answer_input, response, outcome>>
       \/ /\ calls' = Call("answer")
          /\ answer_input' = Append(answer_input, result)
          /\ \/ /\ failed' = failed \cup {"answer"}
                /\ exc' = LLMError
                /\ pc' = "Except"
                /\ UNCHANGED <<response, outcome>>
             \/ \E completion \in AnswerCompletions :
                   /\ response' = IF StripsAnswer(variant)
                                  THEN Strip(completion)
                                  ELSE completion
                   /\ outcome' = "returned"
                   /\ pc' = "Done"
                   /\ UNCHANGED <<failed, exc>>
    /\ UNCHANGED <<sessionVars, pageVars, fetched_from, user_query, schema,
                   raw, sql_query, result, run_error, executed, log, cleanVars, saveVars>>

\* An except clause that puts the exception text into its answer.
ExceptResponseLeaks(e) == ErrorApology \o <<" ">> \o e

\* The string the except clause of the live get_response returns for the
\* exception e: the same canned text whatever e says.
ExceptResponse(e) == ErrorApology

\* except Exception as e: of get_response.
ExceptHandler ==
    /\ pc = "Except"
    /\ log' = Append(log, exc)
    /\ pc' = ExceptTarget(variant)
    /\ IF ExceptTarget(variant) = "Done"
       THEN /\ response' = ExceptResponse(exc)
            /\ outcome' = "returned"
       ELSE UNCHANGED <<response, outcome>>
    /\ UNCHANGED <<sessionVars, pageVars, fetched_from, user_query, schema,
                   raw, sql_query, result, exc, run_error, calls, failed,
                   executed, answer_input, cleanVars, saveVars>>

\* fallback_response, called in the except clause of the commented scripts:
\* an exception of its LLM call leaves get_response.
FallbackResponse ==
    /\ pc = "Fallback"
    /\ calls' = Call("fallback")
    /\ \/ /\ failed' = failed \cup {"fallback"}
          /\ exc' = LLMError
          /\ outcome' = "raised"
          /\ UNCHANGED response
       \/ \E completion \in FallbackCompletions :
             /\ response' = IF StripsAnswer(variant)
                            THEN Strip(completion)
                            ELSE completion
             /\ outcome' = "returned"
             /\ UNCHANGED <<failed, exc>>
    /\ pc' = "Done"
    /\ UNCHANGED <<sessionVars, pageVars, fetched_from, user_query, schema,
                   raw, sql_query, result, run_error, executed, answer_input,
                   log, cleanVars, saveVars>>

\* Back on the Chat page: the returned string is appended as an Assistant
\* entry; an exception that left get_response ends the script run instead.
Return ==
    /\ pc = "Done"
    /\ chat_history' = IF outcome = "returned"
                       THEN Append(chat_history, AIMessage(response))
                       ELSE chat_history
    /\ pc' = "Idle"
    /\ user_query' = None
    /\ schema' = <<>>
    /\ raw' = None
    /\ sql_query' = None
    /\ result' = None
    /\ response' = None
    /\ outcome' = "none"
    /\ exc' = None
    /\ run_error' = None
    /\ calls' = NoCalls
    /\ failed' = {}
    /\ executed' = <<>>
    /\ answer_input' = <<>>
    /\ log' = <<>>
    /\ UNCHANGED <<variant, selected, db, turns, pageVars, fetched_from,
                   cleanVars, saveVars>>

Next ==
    \/ \E m \in Menu : SelectMenu(m)
    \/ ConnectDatabase
    \/ \E q \in Questions : SubmitQuery(q)
    \/ Rerun
    \/ GetSchema
    \/ SynthesizeSql
    \/ RunQuery
    \/ SynthesizeAnswer
    \/ ExceptHandler
    \/ FallbackResponse
    \/ Return

Spec == Init /\ [][Next]_vars

TypeOK ==
    /\ variant \in Variants
    /\ selected \in Menu
    /\ db \in Dbs \cup {Unset}
    /\ turns \in 0 .. MaxTurns
    /\ pc \in {"Idle", "Crashed", "GetSchema", "Synthesizing", "Executing",
               "Answering", "Except", "Fallback", "Done"}
    /\ outcome \in {"none", "returned", "raised"}
    /\ failed \subseteq {"schema", "synth", "run", "answer", "fallback"}
    /\ banner \in {"none", "success", "error"}
    /\ connected \in Dbs \cup {Unset}
    /\ fetched_from \subseteq Dbs

\* ------------------------------------------- clean_sql_query on its own
\* Whitespace runs of at most MaxWs characters.
WsRuns == UNION { [1 .. n -> Whitespace] : n \in 0 .. MaxWs }

\* The markers "SQL", "SQL:" and "SQL Query:" in several letter cases.
Markers ==
    { <<"S", "Q", "L">>, <<"s", "q", "l">>, <<"S", "q", "l", ":">>,
      <<"S", "Q", "L", ":">>, <<"S", "Q", "L", " ", "Query:">>,
      <<"s", "q", "l", " ", "query:">> }

\* Statement bodies: a plain statement, a fenced one, nothing, and a
\* completion that repeats the marker.
Bodies ==
    { <<"SELECT 1;">>, <<Fence, "SELECT 1;", Fence>>, <<>>,
      <<"S", "Q", "L", " ", "SELECT 1;">> }

PlainBodies == { <<"SELECT 1;">>, <<Fence, "SELECT 1;", Fence>> }

Join(parts) ==
    parts.lead \o parts.marker \o parts.gap \o parts.body \o parts.trail

InitClean ==
    /\ variant = "live"
    /\ selected = "Chat"
    /\ db = Unset
    /\ chat_history = <<AIMessage(Greeting)>>
    /\ turns = 0
    /\ banner = "none"
    /\ connected = Unset
    /\ fetched_from = {}
    /\ pc = "Idle"
    /\ TurnReset
    /\ cl_pc = "input"
    /\ cl_in \in [lead : WsRuns, marker : Markers \cup {<<>>}, gap : WsRuns,
                  body : Bodies, trail : WsRuns]
    /\ cl_out = None
    /\ cl_out2 = None
    /\ SaveIdle

CleanOnce ==
    /\ cl_pc = "input"
    /\ cl_out' = clean_sql_query(Join(cl_in))
    /\ cl_pc' = "cleaned"
    /\ UNCHANGED <<sessionVars, pageVars, fetched_from, turnVars, cl_in,
                   cl_out2, saveVars>>

CleanAgain ==
    /\ cl_pc = "cleaned"
    /\ cl_out2' = clean_sql_query(cl_out)
    /\ cl_pc' = "recleaned"
    /\ UNCHANGED <<sessionVars, pageVars, fetched_from, turnVars, cl_in,
                   cl_out, saveVars>>

NextClean == CleanOnce \/ CleanAgain

SpecClean == InitClean /\ [][NextClean]_vars

\* ------------------------------------------------- data_fetch.save_to_mysql
\* One call of save_to_mysql(df, table_name) against one table of the MySQL
\* database.  The connection is opened with mysql.connector's defaults, so
\* autocommit is off: an INSERT stays in the connection's open transaction
\* until conn.commit(), and the server discards an open transaction when the
\* connection is closed or lost.

MaxRows == 2

\* rows of the DataFrame built by fetch_all_data
Rows == {"row_a", "row_b"}

DataFrames == UNION {[1 .. n -> Rows] : n \in 0 .. MaxRows}

\* contents of the table before the call: absent, empty, or holding a row
TablesBefore ==
    {NoTable,
     [table |-> TRUE, committed |-> <<>>, pending |-> <<>>],
     [table |-> TRUE, committed |-> <<"row_old">>, pending |-> <<>>]}

\* cursor.execute(create_table_query): DDL, committed by the server at once
CreateTableEffect(d) ==
    [table |-> TRUE, committed |-> d.committed \o d.pending, pending |-> <<>>]

\* conn.commit()
CommitEffect(d) ==
    [d EXCEPT !.committed = @ \o d.pending, !.pending = <<>>]

InsertEffectAutocommit(d, row) ==
    [d EXCEPT !.committed = Append(@, row)]

\* cursor.execute(insert_query, tuple(row))
InsertEffect(d, row) ==
    [d EXCEPT !.pending = Append(@, row)]

\* the open transaction is discarded when the connection ends
CloseEffect(d) ==
    [d EXCEPT !.pending = <<>>]

InitSave ==
    /\ variant = "live"
    /\ selected = "Chat"
    /\ db = Unset
    /\ chat_history = <<AIMessage(Greeting)>>
    /\ turns = 0
    /\ banner = "none"
    /\ connected = Unset
    /\ fetched_from = {}
    /\ pc = "Idle"
    /\ TurnReset
    /\ CleanIdle
    /\ sv_pc = "connect"
    /\ sv_df \in DataFrames
    /\ sv_next = 1
    /\ sv_conn = "none"
    /\ sv_db0 \in TablesBefore
    /\ sv_db = sv_db0
    /\ sv_error = "none"

SaveRest == <<sessionVars, pageVars, fetched_from, turnVars, cleanVars>>

\* conn = mysql.connector.connect(...); if conn.is_connected():
SaveConnect(how) ==
    /\ sv_pc = "connect"
    /\ \/ /\ how = "open"
          /\ sv_conn' = "open"
          /\ sv_pc' = "create"
          /\ UNCHANGED sv_error
       \/ /\ how = "down"
          /\ sv_conn' = "down"
          /\ sv_pc' = "finally"
          /\ UNCHANGED sv_error
       \/ /\ how = "raise"
          /\ sv_error' = "connect"
          /\ sv_pc' = "finally"
          /\ UNCHANGED sv_conn
    /\ UNCHANGED <<SaveRest, sv_df, sv_next, sv_db, sv_db0>>

\* cursor.execute(create_table_query); conn.commit()
SaveCreateTable(how) ==
    /\ sv_pc = "create"
    /\ \/ /\ how = "ok"
          /\ sv_db' = CommitEffect(CreateTableEffect(sv_db))
          /\ sv_pc' = "insert"
          /\ UNCHANGED sv_error
       \/ /\ how = "execute_raises"
          /\ sv_error' = "create"
          /\ sv_pc' = "finally"
          /\ UNCHANGED sv_db
       \/ /\ how = "commit_raises"
          /\ sv_db' = CreateTableEffect(sv_db)
          /\ sv_error' = "create_commit"
          /\ sv_pc' = "finally"
    /\ UNCHANGED <<SaveRest, sv_df, sv_next, sv_conn, sv_db0>>

\* one pass of the loop: cursor.execute(insert_query, tuple(row))
SaveInsertRow(how) ==
    /\ sv_pc = "insert"
    /\ sv_next <= Len(sv_df)
    /\ \/ /\ how = "ok"
          /\ sv_db' = InsertEffect(sv_db, sv_df[sv_next])
          /\ sv_next' = sv_next + 1
          /\ UNCHANGED <<sv_pc, sv_conn, sv_error>>
       \/ /\ how = "raise"
          /\ sv_error' = "insert"
          /\ sv_pc' = "finally"
          /\ UNCHANGED <<sv_db, sv_next, sv_conn>>
       \/ /\ how = "lost"
          /\ sv_error' = "insert"
          /\ sv_conn' = "lost"
          /\ sv_db' = CloseEffect(sv_db)
          /\ sv_pc' = "finally"
          /\ UNCHANGED sv_next
    /\ UNCHANGED <<SaveRest, sv_df, sv_db0>>

\* conn.commit() after the loop, then the print of the success message
SaveCommit(how) ==
    /\ sv_pc = "insert"
    /\ sv_next > Len(sv_df)
    /\ \/ /\ how = "ok"
          /\ sv_db' = CommitEffect(sv_db)
          /\ UNCHANGED sv_error
       \/ /\ how = "raise"
          /\ sv_error' = "commit"
          /\ UNCHANGED sv_db
    /\ sv_pc' = "finally"
    /\ UNCHANGED <<SaveRest, sv_df, sv_next, sv_conn, sv_db0>>

\* except Error: print; finally: close the cursor and the connection
SaveFinally ==
    /\ sv_pc = "finally"
    /\ IF sv_conn = "open"
          THEN /\ sv_conn' = "closed"
               /\ sv_db' = CloseEffect(sv_db)
          ELSE UNCHANGED <<sv_conn, sv_db>>
    /\ sv_pc' = "done"
    /\ UNCHANGED <<SaveRest, sv_df, sv_next, sv_db0, sv_error>>

NextSave ==
    \/ \E how \in {"open", "down", "raise"} : SaveConnect(how)
    \/ \E how \in {"ok", "execute_raises", "commit_raises"} :
          SaveCreateTable(how)
    \/ \E how \in {"ok", "raise", "lost"} : SaveInsertRow(how)
    \/ \E how \in {"ok", "raise"} : SaveCommit(how)
    \/ SaveFinally

SpecSave == InitSave /\ [][NextSave]_vars

\* ================================================================ properties
\* The steps of the database-grounded path that can fail.
GroundedSteps == {"schema", "synth", "run", "answer"}

CannedStrings == {CouldntGenerate, ErrorApology}

\* C1 (as stated): in the live script and the commented OpenAI script,
\* whenever db.run raised, the turn never reaches Answering (no answer LLM
\* call is made) and has invoked the Fallback Responder when it is done.
C1_RunErrorInvokesFallback ==
    (variant \in {"live", "openai"} /\ "run" \in failed) =>
        /\ pc # "Answering"
        /\ calls.answer = 0
        /\ (pc = "Done" => calls.fallback = 1)

\* C1 (amended): in the live script and the commented OpenAI script,
\* whenever db.run raised, the turn never reaches Answering and no answer
\* LLM call is made; the OpenAI script then invokes the Fallback Responder,
\* while the live script, which has none, returns its canned error string.
C1_RunErrorSkipsAnswering ==
    (variant \in {"live", "openai"} /\ "run" \in failed) =>
        /\ pc # "Answering"
        /\ calls.answer = 0
        /\ (pc = "Done" =>
              IF variant = "live"
              THEN /\ calls.fallback = 0
                   /\ outcome = "returned"
                   /\ response = ErrorApology
              ELSE calls.fallback = 1)

C1_Witness == variant = "live" /\ "run" \in failed /\ pc = "Done"

\* C2 (as stated): whenever the answer LLM call failed, the turn has reached
\* Fallback (the Fallback Responder was invoked) by the time it is done.
C2_AnswerErrorInvokesFallback ==
    ("answer" \in failed /\ pc = "Done") => calls.fallback = 1

\* C2 (amended): whenever the answer LLM call failed, the turn makes no
\* further synthesis, execution or answer call; the commented scripts invoke
\* the Fallback Responder before they are done, and the live script returns
\* its canned error string without any fallback call.
C2_AnswerErrorEndsTurn ==
    "answer" \in failed =>
        /\ pc \in {"Except", "Fallback", "Done"}
        /\ calls.synth = 1 /\ calls.run = 1 /\ calls.answer = 1
        /\ (pc = "Done" =>
              IF variant = "live"
              THEN /\ calls.fallback = 0
                   /\ outcome = "returned"
                   /\ response = ErrorApology
              ELSE calls.fallback = 1)

C2_Witness == variant = "live" /\ "answer" \in failed /\ pc = "Done"

\* C3: clean_sql_query is idempotent: cleaning a cleaned text changes nothing.
C3_CleanIdempotent == cl_pc = "recleaned" => cl_out2 = cl_out

\* C4: cleaning <ws><marker><ws><body><ws>, for a marker "SQL", "SQL:" or
\* "SQL Query:" in any letter case, yields exactly the body.
C4_CleanYieldsBody ==
    (cl_pc # "input" /\ cl_in.marker \in Markers /\ cl_in.body \in PlainBodies)
        => cl_out = cl_in.body

\* C5: the live get_response ends every turn by returning a string, whatever
\* ports failed; no exception leaves it.
C5_AlwaysReturnsString ==
    variant = "live" =>
        /\ outcome # "raised"
        /\ (pc = "Done" => outcome = "returned" /\ response # None)

C5_Witness ==
    variant = "live" /\ pc = "Done" /\ "run" \in failed /\ outcome = "returned"

\* C6 (as stated): when the database-grounded path failed and the Fallback
\* Responder's LLM call failed too, the turn ends with an apology string
\* returned to the caller.
C6_FallbackFailureApologises ==
    (pc = "Done" /\ failed \cap GroundedSteps # {} /\ "fallback" \in failed) =>
        /\ outcome = "returned"
        /\ response \in CannedStrings

\* C6 (amended): when the database-grounded path failed, the live script
\* returns a canned apology string and calls no Fallback Responder; in the
\* commented scripts, when the Fallback Responder was called and its LLM call
\* failed too, the exception leaves get_response and no string is returned.
C6_FallbackFailureEscapes ==
    (pc = "Done" /\ failed \cap GroundedSteps # {}) =>
        IF variant = "live"
        THEN /\ calls.fallback = 0
             /\ "fallback" \notin failed
             /\ outcome = "returned"
             /\ response \in CannedStrings
        ELSE /\ ("fallback" \in failed =>
                    /\ calls.fallback = 1
                    /\ outcome = "raised"
                    /\ response = None)
             /\ ("fallback" \notin failed => outcome = "returned")

C6_Witness ==
    /\ variant = "openai"
    /\ pc = "Done"
    /\ "run" \in failed
    /\ "fallback" \in failed
    /\ outcome = "raised"

\* C7 (as stated): in the live script, when synthesis failed (the synthesis
\* call raised, or get_sql_query yielded None or an empty statement), the
\* turn went to Fallback and the Fallback Responder produced the answer.
C7_SynthesisFailureInvokesFallback ==
    (/\ variant = "live"
     /\ pc = "Done"
     /\ "schema" \notin failed
     /\ (sql_query = None \/ sql_query = <<>>)) => calls.fallback = 1

\* C7 (amended): in the live script, when synthesis failed (the synthesis
\* call raised, or get_sql_query yielded None or an empty statement), the
\* turn goes from Synthesizing directly to Done and returns the canned
\* "couldn't generate a SQL query" string; nothing is executed and neither
\* the answer prompt nor a Fallback Responder is called.
C7_SynthesisFailureReturnsCanned ==
    (/\ variant = "live"
     /\ pc = "Done"
     /\ "schema" \notin failed
     /\ (sql_query = None \/ sql_query = <<>>)) =>
        /\ response = CouldntGenerate
        /\ outcome = "returned"
        /\ calls.run = 0 /\ calls.answer = 0 /\ calls.fallback = 0
        /\ executed = <<>>

C7_Witness == variant = "live" /\ pc = "Done" /\ "synth" \in failed

\* C8: in the live script db.run is invoked only after synthesis returned a
\* non-empty statement in the same turn.
C8_RunOnlyWithStatement ==
    variant = "live" =>
        /\ \A i \in 1 .. Len(executed) :
              executed[i] # None /\ executed[i] # <<>>
        /\ (calls.run > 0 =>
              /\ calls.synth = 1
              /\ "synth" \notin failed
              /\ executed = <<sql_query>>)

C8_Witness ==
    variant = "live" /\ calls.run = 1 /\ executed = << <<"SELECT 1;">> >>

\* C9: in one call of the live get_response the synthesis call, db.run and
\* the answer call are each made at most once, and once one of them failed
\* none of the three is made in the rest of the turn.
C9_NoRetry ==
    [][variant = "live" =>
         /\ calls'.synth <= 1 /\ calls'.run <= 1 /\ calls'.answer <= 1
         /\ (/\ failed \cap {"synth", "run", "answer"} # {}
             /\ pc # "Done") =>
                /\ calls'.synth = calls.synth
                /\ calls'.run = calls.run
                /\ calls'.answer = calls.answer]_vars

C9_Witness ==
    variant = "live" /\ pc = "Done" /\ "run" \in failed /\ calls.run = 1

\* C10: in every script, the answer prompt is sent to the LLM only with the
\* text of a successful db.run result, never after db.run raised.
C10_AnswerOnlyAfterSuccess ==
    /\ \A i \in 1 .. Len(answer_input) : answer_input[i] # None
    /\ ("run" \in failed => calls.answer = 0)


\* C11 (as stated): in the live script and the commented OpenAI script, an
\* exception of db.run is turned at the execution step into an error value
\* that carries the driver message, and does not travel past that step.
C11_RunErrorBecomesValue ==
    (variant \in {"live", "openai"} /\ "run" \in failed) =>
        /\ Range(run_error) \subseteq Range(result)
        /\ ~(pc = "Except" /\ exc = run_error)

\* C11 (amended): in the live script and the commented OpenAI script, an
\* exception of db.run is caught inside get_response (by the except clause
\* of the live get_response, by safe_db_run in the OpenAI script) and never
\* leaves get_response; its message is passed to logging.error and to
\* nothing else: no value carries it, the result stays None.
C11_RunErrorLoggedOnly ==
    (variant \in {"live", "openai"} /\ "run" \in failed) =>
        /\ result = None
        /\ \/ pc = "Except" /\ variant = "live" /\ exc = run_error
           \/ \E i \in 1 .. Len(log) : log[i] = run_error
        /\ (outcome = "raised" => "fallback" \in failed)
        /\ (pc = "Done" /\ variant = "live" => outcome = "returned")

C11_Witness ==
    /\ variant = "openai"
    /\ "run" \in failed
    /\ run_error = <<"syntax error">>
    /\ pc = "Done"


\* C12 (as stated): in the live script, when query execution failed the
\* returned string is the output of the Fallback Responder.
C12_RunErrorReturnsFallbackOutput ==
    (variant = "live" /\ "run" \in failed /\ pc = "Done") =>
        /\ calls.fallback = 1
        /\ response \in FallbackCompletions

\* C12 (amended): in the live script, when query execution failed the
\* returned string is the one canned error string, whatever the statement
\* and the driver message were: it contains neither of them.
C12_RunErrorReturnsConstant ==
    (variant = "live" /\ "run" \in failed /\ pc = "Done") =>
        /\ outcome = "returned"
        /\ response = ErrorApology
        /\ Range(response) \cap (Range(sql_query) \cup Range(run_error)) = {}

C12_Witness ==
    /\ variant = "live"
    /\ "run" \in failed
    /\ pc = "Done"
    /\ sql_query = <<"DELETE FROM t;">>
    /\ run_error = <<"connection lost">>


\* C13: the conversation history is append-only: every step of the session
\* (chat turns, menu selections, connection attempts) keeps every entry at
\* its index with its role and text, and no step inside get_response
\* changes the history at all.
C13_HistoryAppendOnly ==
    [][/\ Len(chat_history') >= Len(chat_history)
       /\ SubSeq(chat_history', 1, Len(chat_history)) = chat_history
       /\ (pc \notin {"Idle", "Done"} => chat_history' = chat_history)]_vars

C13_Witness ==
    /\ Len(chat_history) = 3
    /\ chat_history[3].role = "Assistant"
    /\ selected = "Database Connection"
    /\ banner = "success"
    /\ fetched_from # {}
    /\ db \notin fetched_from


\* C14: every chat turn invokes get_response, and once the turn is over the
\* string it returned is the last entry of the history, an Assistant entry:
\* the history holds the greeting and two entries per turn.
C14_TurnAppendsAnswer ==
    /\ pc # "Crashed"
    /\ (pc = "Idle" =>
          /\ Len(chat_history) = 1 + 2 * turns
          /\ chat_history[Len(chat_history)].role = "Assistant")


\* The text starts with the literal token "SQL".
HasSqlPrefix(s) ==
    Len(s) >= 3 /\ s[1] = "S" /\ s[2] = "Q" /\ s[3] = "L"

\* The text is wrapped in a code fence.
IsFenced(s) == s # <<>> /\ (Head(s) = Fence \/ s[Len(s)] = Fence)

\* C15: in the live script every statement handed to db.run is the cleaned
\* completion, and it neither starts with the token "SQL" (so not with "SQL
\* Query:" either) nor is wrapped in code fences.
C15_ExecutedIsClean ==
    variant = "live" =>
        \A i \in 1 .. Len(executed) :
            /\ executed[i] = clean_sql_query(raw)
            /\ ~HasSqlPrefix(executed[i])
            /\ ~IsFenced(executed[i])


\* C16: the live script applies no statement-type restriction: whenever
\* synthesis produced a non-empty statement, mutating or not, exactly that
\* statement, unchanged, is what db.run is called with.
C16_NoStatementRestriction ==
    (variant = "live" /\ sql_query # None /\ sql_query # <<>>) =>
        IF pc = "Executing"
        THEN executed = <<>>
        ELSE executed = <<sql_query>> /\ calls.run = 1

C16_Witness ==
    /\ variant = "live"
    /\ executed = << <<"DELETE FROM t;">> >>
    /\ pc = "Answering"
    /\ result = <<"[(1,)]">>


\* C17: the schema used in a turn is fetched in that turn, by
\* db.get_table_info() on the handle of the latest successful connection,
\* which is the one the session holds; no other schema is ever in use.
C17_SchemaFromActiveHandle ==
    /\ schema \in {<<>>, TableInfo(connected)}
    /\ (pc \in {"Synthesizing", "Executing", "Answering"} =>
          /\ calls.info >= 1
          /\ db = connected
          /\ db \in fetched_from
          /\ schema = TableInfo(connected))

C17_Witness ==
    /\ turns = 2
    /\ pc = "Synthesizing"
    /\ fetched_from = {1, 2}
    /\ db = 2
    /\ schema = TableInfo(2)


\* C18: the history is the Assistant greeting followed by strictly
\* alternating Human and Assistant entries.
C18_HistoryAlternates ==
    /\ chat_history[1] = AIMessage(Greeting)
    /\ \A i \in 2 .. Len(chat_history) :
          chat_history[i].role = IF i % 2 = 0 THEN "Human" ELSE "Assistant"


\* C19: a failed connection attempt (init_database returned None, the form
\* shows its error) leaves the session's database handle and the
\* conversation history as they were.
C19_FailedConnectKeepsHandle ==
    [][banner' = "error" =>
         /\ db' = db
         /\ chat_history' = chat_history]_vars

C19_Witness ==
    /\ banner = "error"
    /\ db = 2
    /\ connected = 2
    /\ Len(chat_history) = 3


\* The live turn is past a successful db.get_table_info().
SchemaFetched ==
    /\ variant = "live"
    /\ pc \in {"Synthesizing", "Executing", "Answering", "Except", "Done"}
    /\ "schema" \notin failed

\* C20: in the live script the synthesis call is made if and
\* only if the schema text holds at least one CREATE TABLE definition; with
\* none the turn returns the "couldn't generate" string without any LLM or
\* db.run call.
C20_SynthesisIffAnyTableDefinition ==
    SchemaFetched =>
        IF schema # <<>>
        THEN pc = "Synthesizing" \/ calls.synth = 1
        ELSE /\ pc = "Done"
             /\ response = CouldntGenerate
             /\ calls.synth = 0 /\ calls.run = 0 /\ calls.answer = 0


\* C21: save_to_mysql inserts rows all-or-nothing.  At every point of a call
\* the rows it has committed are none or all rows of the DataFrame; rows
\* are committed only by the commit that follows the last row; and when an
\* insert raised a database Error the finished call has committed no row and
\* left none pending, while the table of the CREATE TABLE statement exists.
C21_AllOrNothing ==
    sv_pc # "off" =>
       /\ sv_db.committed \in
             {sv_db0.committed, sv_db0.committed \o sv_df}
       /\ sv_db.committed # sv_db0.committed =>
             /\ sv_next = Len(sv_df) + 1
             /\ sv_pc \in {"finally", "done"}
             /\ sv_error = "none"
       /\ (sv_pc = "done" /\ sv_error = "insert") =>
             /\ sv_db.committed = sv_db0.committed
             /\ sv_db.pending = <<>>
             /\ sv_db.table

\* a finished call that created the table, inserted a row and then had an
\* insert raise
C21_Witness ==
    /\ sv_pc = "done"
    /\ sv_error = "insert"
    /\ sv_next > 1
    /\ ~sv_db0.table
    /\ sv_db.table
    /\ sv_db.committed = <<>>

====
